---- MODULE Spec2Model ----
(***************************************************************************)
(* A model of the places application: the search screen's post filter,     *)
(* the bridge between the map screen and the embedded map widget, and the  *)
(* login / profile session flow.                                           *)
(*                                                                         *)
(* Text is modelled as a sequence of one-character strings so that trim,   *)
(* toLowerCase, join and includes are computed the way the code computes   *)
(* them.  An optional value (a field that may be absent, null or           *)
(* undefined) is a sequence of length at most one.                         *)
(***************************************************************************)
EXTENDS Integers, Sequences, FiniteSets, TLC

VARIABLES
  \* ---- SearchScreen (src/unnamed/part_000) ----
  postsData,         \* useState: the posts, with their like counters
  searchResults,     \* useState: the filtered posts shown in the list
  selectedCategory,  \* useState: id of the selected category chip
  searchQuery,       \* useState: text of the search field
  isSearching,       \* useState
  allPostsNormalized, \* module constant: normalizePosts(sourcePosts)
  categoryOptions,   \* module constant computed from the posts at load
  effectsPending,    \* the effects of the last render have not run yet
  \* ---- YandexMap (src/unnamed/part_001) ----
  selectedLocation,  \* useState: coordinates selected on the map
  address,           \* useState: address of the selected coordinates
  isLoading,         \* useState
  isMapLoaded,       \* useState
  markers,           \* useState: the places shown as markers
  showAddModal,      \* useState: the "add place" modal is visible
  newPlaceCoords,    \* useState: coordinates of the place being added, or null
  newPlaceName,      \* useState
  newPlaceDesc,      \* useState
  userRole,          \* useState: role answered by /me, '' before
  mapToken,          \* useState: token read from AsyncStorage, or null
  asyncStorageToken, \* AsyncStorage item 'token'
  rolePc,            \* position of the "load token and user role" effect
  placesPc,          \* position of the "fetch places" effect
  addRequests,       \* POST /places requests in flight, with what each call captured
  mapAlert,          \* the alert shown by the last step of the map, if any
  locationSelectCalls, \* calls of onLocationSelect made by the last step
  injectedMarkers,   \* the places for which window.addMarker was injected
  mapCrashed,        \* an effect of YandexMap threw: the component is gone
  \* ---- MapScreen (src/frontend/app/(tabs)/map.tsx) ----
  msSelectedLocation, \* useState selectedLocation
  msSelectedAddress,  \* useState selectedAddress (undefined at first)
  userLocation,       \* useState: the device's position, or null
  hasCenteredInitial, \* useRef
  msSearchQuery,      \* useState searchQuery: text of the map's search field
  searchActive,       \* useState
  frameCallbacks,     \* callbacks given to requestAnimationFrame, not yet run
  injectedCommands,   \* the searchAddress and buildRoute commands injected by the last step
  \* ---- AuthScreen (src/frontend/app/login.tsx) ----
  mode,              \* useState: 'login' or 'register'
  email,             \* useState
  password,          \* useState
  name,              \* useState
  companyName,       \* useState
  companyINN,        \* useState
  accountType,       \* useState: 'user' or 'company'
  authRequests,      \* register / login requests in flight, with what each call captured
  authAlert,         \* the alert shown by the last step of the session flow, if any
  localStorageToken, \* localStorage item 'token'
  hasLocalStorage,   \* the build runs where a global localStorage exists
  \* ---- the session store (lib/user-session) and the router ----
  userSession,       \* the stored session, or null
  route,             \* the screen shown
  \* ---- ProfileScreen (src/frontend/app/(tabs)/profile.tsx) ----
  profileSession,    \* useState session
  focusPending,      \* the profile screen gained focus, its focus effect has not run
  focusCause,        \* what navigated to the profile screen last
  \* ---- the backend ----
  users,             \* table users: the role of each username, "none" without a row
  \* ---- the database schema (src/unnamed/part_002) ----
  dbUsers,           \* table users: the ids of its rows
  dbPlaces,          \* table places: owner_id of each row, by id
  dbReviews,         \* table reviews: rows with id, place_id and user_id
  nextUserId,        \* AUTO_INCREMENT counters: the last id given out
  nextPlaceId,
  nextReviewId,
  \* ---- calls of the functions of src/constants/content.ts ----
  numericInput,      \* the NumericValue given to parseNumericValue
  parsedValue,       \* what parseNumericValue returned, once called
  listInput,         \* the posts given to normalizePost and normalizePosts
  normalizedPost,    \* the last call of normalizePost: post, index and result
  normalizedList     \* what normalizePosts returned, once called

searchVars == <<postsData, searchResults, selectedCategory, searchQuery,
                isSearching, allPostsNormalized, categoryOptions, effectsPending>>

mapVars == <<selectedLocation, address, isLoading, isMapLoaded, markers, showAddModal,
             newPlaceCoords, newPlaceName, newPlaceDesc, userRole, mapToken,
             asyncStorageToken, rolePc, placesPc, addRequests, mapAlert,
             locationSelectCalls, injectedMarkers, mapCrashed, msSelectedLocation,
             msSelectedAddress, userLocation, hasCenteredInitial, msSearchQuery,
             searchActive, frameCallbacks, injectedCommands>>

authVars == <<mode, email, password, name, companyName, companyINN, accountType,
              authRequests, authAlert, localStorageToken, hasLocalStorage, userSession,
              route, profileSession, focusPending, focusCause, users>>

dbVars == <<dbUsers, dbPlaces, dbReviews, nextUserId, nextPlaceId, nextReviewId>>

contentVars == <<numericInput, parsedValue, listInput, normalizedPost, normalizedList>>

vars == <<searchVars, mapVars, authVars, dbVars, contentVars>>

(***************************************************************************)
(* Bounds                                                                  *)
(***************************************************************************)
MaxPosts == 2      \* longest post list drawn at load
MaxLikes == 1      \* likes added per post by handleLike
MaxMarkers == 2    \* longest list of markers
MaxAddRequests == 2 \* POST /places requests in flight at once
MaxAuthRequests == 1 \* register / login requests in flight at once
MaxRows == 2       \* rows ever inserted into each table
MaxFrameCallbacks == 2 \* requestAnimationFrame callbacks waiting at once

(***************************************************************************)
(* Optional values                                                         *)
(***************************************************************************)
None == <<>>
Some(x) == <<x>>

(***************************************************************************)
(* Text                                                                    *)
(***************************************************************************)
\* String.prototype.toLowerCase on one character
LowerChar(c) ==
  CASE c = "A" -> "a"
    [] c = "B" -> "b"
    [] c = "E" -> "e"
    [] c = "I" -> "i"
    [] c = "K" -> "k"
    [] c = "<EM>" -> "<em>"
    [] c = "<EL>" -> "<el>"
    [] c = "<EN>" -> "<en>"
    [] c = "<TE>" -> "<te>"
    [] c = "<YERU>" -> "<yeru>"
    [] c = "<ES>" -> "<es>"
    [] OTHER -> c

toLowerCase(s) == [i \in 1..Len(s) |-> LowerChar(s[i])]

\* the line feed, one character
LF == "<LF>"

IsWhitespace(c) == c \in {" ", LF}

RECURSIVE trimStart(_)
trimStart(s) ==
  IF s # <<>> /\ IsWhitespace(Head(s)) THEN trimStart(Tail(s)) ELSE s

RECURSIVE trimEnd(_)
trimEnd(s) ==
  IF s # <<>> /\ IsWhitespace(s[Len(s)])
    THEN trimEnd(SubSeq(s, 1, Len(s) - 1))
    ELSE s

\* String.prototype.trim
trim(s) == trimEnd(trimStart(s))

\* Array.prototype.join(' ')
RECURSIVE join(_)
join(list) ==
  IF list = <<>> THEN <<>>
  ELSE IF Len(list) = 1 THEN Head(list)
  ELSE Head(list) \o <<" ">> \o join(Tail(list))

\* String.prototype.includes
includes(haystack, needle) ==
  \E i \in 0..(Len(haystack) - Len(needle)) :
    SubSeq(haystack, i + 1, i + Len(needle)) = needle

\* String.prototype.endsWith
endsWith(s, suffix) ==
  /\ Len(suffix) <= Len(s)
  /\ SubSeq(s, Len(s) - Len(suffix) + 1, Len(s)) = suffix

\* String.prototype.replace(/\s+/g, '')
removeWhitespace(s) == SelectSeq(s, LAMBDA c : ~IsWhitespace(c))

\* String.prototype.replace with a string pattern: the first occurrence only
replaceFirst(s, pattern, replacement) ==
  IF includes(s, pattern)
    THEN LET i == CHOOSE k \in 0..(Len(s) - Len(pattern)) :
                    /\ SubSeq(s, k + 1, k + Len(pattern)) = pattern
                    /\ \A j \in 0..(k - 1) : SubSeq(s, j + 1, j + Len(pattern)) # pattern
         IN SubSeq(s, 1, i) \o replacement \o SubSeq(s, i + Len(pattern) + 1, Len(s))
    ELSE s

\* the Cyrillic letters of the two suffixes, one character each
\* ("<em>" is U+043C, "<el>" U+043B, "<en>" U+043D, "<te>" U+0442,
\* "<yeru>" U+044B, "<es>" U+0441; the upper-case letters are "<EM>" ...)
MLN == <<"<em>", "<el>", "<en>">>
TYS == <<"<te>", "<yeru>", "<es>">>

(***************************************************************************)
(* Numbers.  A JavaScript number is NaN, an infinity, or a finite value    *)
(* m * 10^e kept in normal form (m not divisible by 10, zero as 0 * 10^0). *)
(***************************************************************************)
NaN == [kind |-> "NaN", m |-> 0, e |-> 0]
Infinity == [kind |-> "Infinity", m |-> 1, e |-> 0]
NegativeInfinity == [kind |-> "Infinity", m |-> -1, e |-> 0]

Abs(n) == IF n < 0 THEN -n ELSE n

RECURSIVE Pow10(_)
Pow10(n) == IF n <= 0 THEN 1 ELSE 10 * Pow10(n - 1)

RECURSIVE NumDigits(_)
NumDigits(n) == IF Abs(n) < 10 THEN 1 ELSE 1 + NumDigits(Abs(n) \div 10)

RECURSIVE Norm(_, _)
Norm(m, e) ==
  IF m = 0 THEN [kind |-> "finite", m |-> 0, e |-> 0]
  ELSE IF Abs(m) % 10 = 0
    THEN Norm(IF m < 0 THEN -(Abs(m) \div 10) ELSE m \div 10, e + 1)
    ELSE [kind |-> "finite", m |-> m, e |-> e]

\* the decimal order of magnitude of a non-zero value
Order(m, e) == e + NumDigits(m) - 1

\* the first four significant digits of a non-zero value
Lead4(m) ==
  IF NumDigits(m) <= 4 THEN Abs(m) * Pow10(4 - NumDigits(m))
  ELSE Abs(m) \div Pow10(NumDigits(m) - 4)

\* the double nearest to m * 10^e: beyond Number.MAX_VALUE (1.797...e308) it
\* is an infinity, below the smallest subnormal (4.9e-324) it is zero
ToDouble(m, e) ==
  LET v == Norm(m, e) IN
    IF v.m = 0 THEN v
    ELSE IF Order(v.m, v.e) > 308 \/ (Order(v.m, v.e) = 308 /\ Lead4(v.m) > 1797)
      THEN (IF v.m < 0 THEN NegativeInfinity ELSE Infinity)
    ELSE IF Order(v.m, v.e) < -324 THEN Norm(0, 0)
    ELSE v

FromInt(n) == Norm(n, 0)

\* Number.isFinite
isFinite(v) == v.kind = "finite"

\* a * b for finite a and b
Times(a, b) == ToDouble(a.m * b.m, a.e + b.e)

\* a + b: a finite operand more than 15 decimal orders below the other is
\* lost in the rounding
Plus(a, b) ==
  IF a.kind = "NaN" \/ b.kind = "NaN" THEN NaN
  ELSE IF a.kind = "Infinity" /\ b.kind = "Infinity"
    THEN (IF a.m = b.m THEN a ELSE NaN)
  ELSE IF a.kind = "Infinity" THEN a
  ELSE IF b.kind = "Infinity" THEN b
  ELSE IF a.m = 0 THEN b
  ELSE IF b.m = 0 THEN a
  ELSE IF Order(a.m, a.e) - Order(b.m, b.e) > 15 THEN a
  ELSE IF Order(b.m, b.e) - Order(a.m, a.e) > 15 THEN b
  ELSE LET low == IF a.e < b.e THEN a.e ELSE b.e IN
         ToDouble(a.m * Pow10(a.e - low) + b.m * Pow10(b.e - low), low)

\* a < b for finite a and b of moderate size
Less(a, b) ==
  LET low == IF a.e < b.e THEN a.e ELSE b.e IN
    a.m * Pow10(a.e - low) < b.m * Pow10(b.e - low)

DigitChars == <<"0", "1", "2", "3", "4", "5", "6", "7", "8", "9">>

IsDigit(c) == \E d \in 1..Len(DigitChars) : DigitChars[d] = c

DigitValue(c) == (CHOOSE d \in 1..Len(DigitChars) : DigitChars[d] = c) - 1

\* the longest prefix of s made of digits
RECURSIVE DigitPrefix(_)
DigitPrefix(s) ==
  IF s # <<>> /\ IsDigit(Head(s)) THEN <<Head(s)>> \o DigitPrefix(Tail(s)) ELSE <<>>

RECURSIVE DigitsValue(_)
DigitsValue(ds) ==
  IF ds = <<>> THEN 0 ELSE 10 * DigitsValue(SubSeq(ds, 1, Len(ds) - 1)) + DigitValue(ds[Len(ds)])

Drop(s, n) == SubSeq(s, n + 1, Len(s))

HasSign(s) == s # <<>> /\ Head(s) \in {"+", "-"}

INFINITY_TEXT == <<"I", "n", "f", "i", "n", "i", "t", "y">>

\* the exponent part at the head of s: e or E, an optional sign and digits;
\* 0 when s does not start with one
ExponentOf(s) ==
  IF s # <<>> /\ Head(s) \in {"e", "E"}
    THEN LET t == Tail(s)
             u == IF HasSign(t) THEN Tail(t) ELSE t
             ds == DigitPrefix(u)
         IN IF ds = <<>> THEN 0
            ELSE IF HasSign(t) /\ Head(t) = "-" THEN -DigitsValue(ds)
            ELSE DigitsValue(ds)
    ELSE 0

\* Number.parseFloat on a text without leading whitespace: the value of the
\* longest prefix that is a decimal literal, NaN when there is none
parseFloat(s) ==
  LET sign == IF s # <<>> /\ Head(s) = "-" THEN -1 ELSE 1
      body == IF HasSign(s) THEN Tail(s) ELSE s
      int == DigitPrefix(body)
      afterInt == Drop(body, Len(int))
      hasDot == afterInt # <<>> /\ Head(afterInt) = "."
      frac == IF hasDot THEN DigitPrefix(Tail(afterInt)) ELSE <<>>
      afterFrac == IF hasDot THEN Drop(afterInt, 1 + Len(frac)) ELSE afterInt
  IN IF Len(body) >= Len(INFINITY_TEXT) /\ SubSeq(body, 1, Len(INFINITY_TEXT)) = INFINITY_TEXT
       THEN (IF sign < 0 THEN NegativeInfinity ELSE Infinity)
     ELSE IF int = <<>> /\ frac = <<>> THEN NaN
     ELSE ToDouble(sign * DigitsValue(int \o frac), ExponentOf(afterFrac) - Len(frac))

(***************************************************************************)
(* Content (src/constants/content.ts).  A NumericValue is a number,       *)
(* [number |-> n], or a string, [string |-> text].                        *)
(***************************************************************************)
NumberValue(n) == [number |-> n]
StringValue(text) == [string |-> text]

parseNumericValue(value) ==
  IF "number" \in DOMAIN value THEN value.number
  ELSE LET str0 == toLowerCase(trim(value.string))
           str1 == replaceFirst(removeWhitespace(str0), <<",">>, <<".">>)
           multiplier == IF includes(str1, MLN) THEN FromInt(1000000)
                         ELSE IF includes(str1, TYS) THEN FromInt(1000)
                         ELSE IF endsWith(str1, <<"k">>) THEN FromInt(1000)
                         ELSE FromInt(1)
           str2 == IF includes(str1, MLN) THEN replaceFirst(str1, MLN, <<>>)
                   ELSE IF includes(str1, TYS) THEN replaceFirst(str1, TYS, <<>>)
                   ELSE IF endsWith(str1, <<"k">>) THEN SubSeq(str1, 1, Len(str1) - 1)
                   ELSE str1
           parsed == parseFloat(str2)
       IN IF isFinite(parsed) THEN Times(parsed, multiplier) ELSE FromInt(0)

(***************************************************************************)
(* SearchScreen                                                            *)
(***************************************************************************)
ALL == <<"a", "l", "l">>

\* [place, user, address, bio, ...tags].join(' ').toLowerCase()
Haystack(post) ==
  toLowerCase(join(<<post.place, post.user, post.address, post.bio>> \o post.tags))

matchesCategory(post, category) ==
  \/ category = ALL
  \/ \E t \in 1..Len(post.tags) : toLowerCase(post.tags[t]) = category

\* the predicate given to data.filter
keepPost(post, category, normalizedQuery) ==
  IF ~matchesCategory(post, category) THEN FALSE
  ELSE IF normalizedQuery = <<>> THEN TRUE
  ELSE includes(Haystack(post), normalizedQuery)

RECURSIVE filterFrom(_, _, _)
filterFrom(data, category, normalizedQuery) ==
  IF data = <<>> THEN <<>>
  ELSE IF keepPost(Head(data), category, normalizedQuery)
    THEN <<Head(data)>> \o filterFrom(Tail(data), category, normalizedQuery)
    ELSE filterFrom(Tail(data), category, normalizedQuery)

\* a filter that forgets to lower-case the query
filterPostsNoCase(data, category, query) ==
  filterFrom(data, category, trim(query))

filterPosts(data, category, query) ==
  filterFrom(data, category, toLowerCase(trim(query)))

\* the posts a list can be made of
PostA == [id |-> "p1", place |-> <<"A">>, user |-> <<"b">>, address |-> <<>>,
          bio |-> <<>>, tags |-> << <<"B">> >>,
          likes |-> StringValue(<<"1", ",", "2", " ", "<te>", "<yeru>", "<es>">>),
          totalLikes |-> NumberValue(FromInt(5)),
          followers |-> StringValue(<<"3", "K">>)]
PostB == [id |-> "p2", place |-> <<"b">>, user |-> <<"a">>, address |-> <<"A", "b">>,
          bio |-> <<>>, tags |-> << <<"a">>, <<"B">> >>,
          likes |-> NumberValue(FromInt(0)),
          totalLikes |-> StringValue(<<"2", " ", "<em>", "<el>", "<en>">>),
          followers |-> StringValue(<<"a", "b">>)]
PostC == [id |-> "p3", place |-> <<"a", "b">>, user |-> <<>>, address |-> <<>>,
          bio |-> <<"B">>, tags |-> <<>>,
          likes |-> StringValue(<<" ", "7", " ">>),
          totalLikes |-> StringValue(<<"1", ",", "5">>),
          followers |-> NumberValue(FromInt(12))]
SourcePosts == {PostA, PostB, PostC}

SourceLists ==
  UNION {{l \in [1..n -> SourcePosts] : \A i, j \in 1..n : i # j => l[i] # l[j]}
           : n \in 0..MaxPosts}

\* normalizePost without the parsing of totalLikes
normalizePostRawTotal(post, index) ==
  [field \in DOMAIN post \cup {"uid"} |->
     CASE field = "uid" -> <<post.id, "-", index>>
       [] field = "likes" -> parseNumericValue(post.likes)
       [] field = "followers" -> parseNumericValue(post.followers)
       [] OTHER -> post[field]]

\* normalizePost: the spread of post, then uid (the id, a hyphen, the index)
\* and the three parsed counters
normalizePost(post, index) ==
  [field \in DOMAIN post \cup {"uid"} |->
     CASE field = "uid" -> <<post.id, "-", index>>
       [] field = "likes" -> parseNumericValue(post.likes)
       [] field = "totalLikes" -> parseNumericValue(post.totalLikes)
       [] field = "followers" -> parseNumericValue(post.followers)
       [] OTHER -> post[field]]

normalizePosts(list) == [i \in 1..Len(list) |-> normalizePost(list[i], i - 1)]

\* ids of the category chips: 'all' and the lower-cased tags of the posts
CategoryIds(posts) ==
  {ALL} \cup UNION {{toLowerCase(posts[i].tags[t]) : t \in 1..Len(posts[i].tags)}
                      : i \in 1..Len(posts)}

\* texts typed into the search field
QueryTexts ==
  {<<>>, <<" ">>, <<"A">>, <<"a", "b">>, <<"b", " ", "a">>, <<" ", "B", " ">>}

SearchInit ==
  /\ \E list \in SourceLists :
       /\ allPostsNormalized = normalizePosts(list)
       /\ postsData = normalizePosts(list)
       /\ searchResults = normalizePosts(list)
       /\ categoryOptions = CategoryIds(list)
  /\ selectedCategory = ALL
  /\ searchQuery = <<>>
  /\ isSearching = FALSE
  /\ effectsPending = TRUE

\* the effects without the one that sets isSearching
RunSearchEffectsFilterOnly ==
  /\ effectsPending
  /\ searchResults' = filterPosts(postsData, selectedCategory, searchQuery)
  /\ effectsPending' = FALSE
  /\ UNCHANGED <<postsData, selectedCategory, searchQuery, isSearching, allPostsNormalized,
                 categoryOptions>>

\* the two effects of SearchScreen, run after a render
RunSearchEffects ==
  /\ effectsPending
  /\ searchResults' = filterPosts(postsData, selectedCategory, searchQuery)
  /\ isSearching' = (Len(trim(searchQuery)) > 0)
  /\ effectsPending' = FALSE
  /\ UNCHANGED <<postsData, selectedCategory, searchQuery, allPostsNormalized,
                 categoryOptions>>

handleSearchChange(text) ==
  /\ ~effectsPending
  /\ searchQuery' = text
  /\ effectsPending' = TRUE
  /\ UNCHANGED <<postsData, searchResults, selectedCategory, isSearching, allPostsNormalized,
                 categoryOptions>>

clearSearch ==
  /\ ~effectsPending
  /\ searchQuery' = <<>>
  /\ effectsPending' = TRUE
  /\ UNCHANGED <<postsData, searchResults, selectedCategory, isSearching, allPostsNormalized,
                 categoryOptions>>

handleCategorySelect(categoryId) ==
  /\ ~effectsPending
  /\ selectedCategory' = categoryId
  /\ effectsPending' = TRUE
  /\ UNCHANGED <<postsData, searchResults, searchQuery, isSearching, allPostsNormalized,
                 categoryOptions>>

\* a like that counts on every post
handleLikeEvery(uid) ==
  /\ ~effectsPending
  /\ \E i \in 1..Len(postsData) :
       /\ postsData[i].uid = uid
       /\ Less(postsData[i].likes, Plus(allPostsNormalized[i].likes, FromInt(MaxLikes)))
  /\ postsData' = [i \in 1..Len(postsData) |->
                     [postsData[i] EXCEPT !.likes = Plus(@, FromInt(1))]]
  /\ effectsPending' = TRUE
  /\ UNCHANGED <<searchResults, selectedCategory, searchQuery, isSearching, allPostsNormalized,
                 categoryOptions>>

handleLike(uid) ==
  /\ ~effectsPending
  /\ \E i \in 1..Len(postsData) :
       /\ postsData[i].uid = uid
       /\ Less(postsData[i].likes, Plus(allPostsNormalized[i].likes, FromInt(MaxLikes)))
  /\ postsData' = [i \in 1..Len(postsData) |->
                     IF postsData[i].uid = uid
                       THEN [postsData[i] EXCEPT !.likes = Plus(@, FromInt(1))]
                       ELSE postsData[i]]
  /\ effectsPending' = TRUE
  /\ UNCHANGED <<searchResults, selectedCategory, searchQuery, isSearching, allPostsNormalized,
                 categoryOptions>>

SearchNext ==
  \/ /\ RunSearchEffects
     /\ UNCHANGED <<mapVars, authVars, dbVars, contentVars>>
  \/ /\ \E text \in QueryTexts : handleSearchChange(text)
     /\ UNCHANGED <<mapVars, authVars, dbVars, contentVars>>
  \/ /\ clearSearch
     /\ UNCHANGED <<mapVars, authVars, dbVars, contentVars>>
  \/ /\ \E c \in categoryOptions : handleCategorySelect(c)
     /\ UNCHANGED <<mapVars, authVars, dbVars, contentVars>>
  \/ /\ \E i \in 1..Len(searchResults) : handleLike(searchResults[i].uid)
     /\ UNCHANGED <<mapVars, authVars, dbVars, contentVars>>

(***************************************************************************)
(* YandexMap and MapScreen                                                 *)
(***************************************************************************)
\* JavaScript truthiness of an optional number / an optional string
TruthyNumber(v) == v # None /\ v[1] # 0
TruthyString(v) == v # None /\ v[1] # ""

\* data.address || ''
OrEmpty(v) == IF TruthyString(v) THEN v[1] ELSE ""

\* MapScreen's INITIAL_LOCATION, passed to YandexMap as initialLocation
INITIAL_LOCATION == [latitude |-> 48, longitude |-> 37]

Latitudes == {None, Some(0), Some(55)}
Longitudes == {None, Some(0), Some(37)}
Addresses == {None, Some("Lenina 1")}

\* the message types that carry coordinates
CoordinateTypes == {"MAP_CLICK", "SEARCH_RESULT", "ROUTE_BUILT", "MAP_LONG_PRESS"}

\* what JSON.parse returns for the texts the widget can post
ParsedMessages ==
  [type : CoordinateTypes, latitude : Latitudes, longitude : Longitudes,
   address : Addresses, error : {None}]
  \cup [type : {"MAP_LOADED", "UNKNOWN"}, latitude : {None}, longitude : {None},
        address : {None}, error : {None}]
  \cup [type : {"ERROR"}, latitude : {None}, longitude : {None},
        address : {None}, error : {None, Some("geocoder failed")}]

\* a text that JSON.parse rejects
NotJson == [type |-> "<not json>", latitude |-> None, longitude |-> None,
            address |-> None, error |-> None]

Messages == ParsedMessages \cup {NotJson}

\* roles of the users table, and an answer of /me without a role
Roles == {"user", "businessOwner", "moderator", "admin"}
MeRoles == Roles \cup {"undefined"}

PlaceNames == {"Cafe"}
PlaceDescs == {"Good"}

\* a place as GET /places and POST /places answer it
Place(lat, lon, title, desc) ==
  [lat |-> lat, lon |-> lon, name |-> title, description |-> desc]

StoredPlace == Place(55, 37, "Park", "Old")

\* JSON null in a column the schema leaves nullable
Null == "<null>"

\* a row of places whose description is NULL
UndescribedPlace == Place(55, 37, "Bar", Null)

\* the markers effect: window.addMarker is injected for each marker in turn;
\* description.replace throws on a null description and ends the loop
FirstThrowing(ms) ==
  IF \E i \in 1..Len(ms) : ms[i].description = Null
    THEN CHOOSE i \in 1..Len(ms) :
           /\ ms[i].description = Null
           /\ \A j \in 1..(i - 1) : ms[j].description # Null
    ELSE Len(ms) + 1

MarkersEffect(loaded, ms) ==
  IF loaded
    THEN /\ injectedMarkers' = injectedMarkers \cup {ms[i] : i \in 1..(FirstThrowing(ms) - 1)}
         /\ mapCrashed' = (FirstThrowing(ms) <= Len(ms))
    ELSE UNCHANGED <<injectedMarkers, mapCrashed>>


MapInit ==
  /\ selectedLocation = INITIAL_LOCATION
  /\ address = ""
  /\ isLoading = TRUE
  /\ isMapLoaded = FALSE
  /\ markers = <<>>
  /\ showAddModal = FALSE
  /\ newPlaceCoords = None
  /\ newPlaceName = ""
  /\ newPlaceDesc = ""
  /\ userRole = ""
  /\ mapToken = None
  /\ asyncStorageToken \in {None, Some("tok")}
  /\ rolePc = "getItem"
  /\ placesPc = "fetching"
  /\ addRequests = {}
  /\ mapAlert = None
  /\ locationSelectCalls = 0
  /\ injectedMarkers = {}
  /\ mapCrashed = FALSE
  /\ msSelectedLocation = INITIAL_LOCATION
  /\ msSelectedAddress = None
  /\ userLocation = None
  /\ hasCenteredInitial = FALSE
  /\ msSearchQuery = <<>>
  /\ searchActive = FALSE
  /\ frameCallbacks = {}
  /\ injectedCommands = {}

\* MapScreen.handleLocationSelect, the onLocationSelect of YandexMap
handleLocationSelect(coords, addr) ==
  /\ msSelectedLocation' = coords
  /\ msSelectedAddress' = addr

\* the three cases without the test of the coordinates
SelectFromMessageUnchecked(data) ==
  LET newCoords == [latitude |-> IF data.latitude = None THEN 0 ELSE data.latitude[1],
                    longitude |-> IF data.longitude = None THEN 0 ELSE data.longitude[1]] IN
    /\ selectedLocation' = newCoords
    /\ address' = OrEmpty(data.address)
    /\ handleLocationSelect(newCoords, data.address)
    /\ locationSelectCalls' = 1

\* the cases MAP_CLICK, SEARCH_RESULT and ROUTE_BUILT of handleWebViewMessage
SelectFromMessage(data) ==
  IF TruthyNumber(data.latitude) /\ TruthyNumber(data.longitude)
    THEN LET newCoords == [latitude |-> data.latitude[1], longitude |-> data.longitude[1]] IN
           /\ selectedLocation' = newCoords
           /\ address' = OrEmpty(data.address)
           /\ handleLocationSelect(newCoords, data.address)
           /\ locationSelectCalls' = 1
    ELSE /\ UNCHANGED <<selectedLocation, address, msSelectedLocation, msSelectedAddress>>
         /\ locationSelectCalls' = 0

LongPress(data) ==
  IF TruthyNumber(data.latitude) /\ TruthyNumber(data.longitude)
    THEN IF userRole = "businessOwner"
           THEN /\ newPlaceCoords' = Some([latitude |-> data.latitude[1],
                                           longitude |-> data.longitude[1]])
                /\ showAddModal' = TRUE
                /\ mapAlert' = None
           ELSE /\ UNCHANGED <<newPlaceCoords, showAddModal>>
                /\ mapAlert' = Some("only a business user can add markers")
    ELSE /\ UNCHANGED <<newPlaceCoords, showAddModal>>
         /\ mapAlert' = None

handleWebViewMessage(raw) ==
  /\ ~mapCrashed
  /\ IF raw = NotJson
       THEN \* JSON.parse throws, the catch logs the error
            /\ locationSelectCalls' = 0
            /\ mapAlert' = None
            /\ UNCHANGED <<selectedLocation, address, isLoading, isMapLoaded, showAddModal,
                           newPlaceCoords, msSelectedLocation, msSelectedAddress>>
       ELSE CASE raw.type = "MAP_LOADED" ->
                   /\ isLoading' = FALSE
                   /\ isMapLoaded' = TRUE
                   /\ locationSelectCalls' = 0
                   /\ mapAlert' = None
                   /\ UNCHANGED <<selectedLocation, address, showAddModal, newPlaceCoords,
                                  msSelectedLocation, msSelectedAddress>>
              [] raw.type \in {"MAP_CLICK", "SEARCH_RESULT", "ROUTE_BUILT"} ->
                   /\ SelectFromMessage(raw)
                   /\ mapAlert' = None
                   /\ UNCHANGED <<isLoading, isMapLoaded, showAddModal, newPlaceCoords>>
              [] raw.type = "MAP_LONG_PRESS" ->
                   /\ LongPress(raw)
                   /\ locationSelectCalls' = 0
                   /\ UNCHANGED <<selectedLocation, address, isLoading, isMapLoaded,
                                  msSelectedLocation, msSelectedAddress>>
              [] raw.type = "ERROR" ->
                   /\ mapAlert' = Some(IF TruthyString(raw.error) THEN raw.error[1]
                                       ELSE "an error occurred")
                   /\ locationSelectCalls' = 0
                   /\ UNCHANGED <<selectedLocation, address, isLoading, isMapLoaded,
                                  showAddModal, newPlaceCoords, msSelectedLocation,
                                  msSelectedAddress>>
              [] OTHER ->
                   /\ locationSelectCalls' = 0
                   /\ mapAlert' = None
                   /\ UNCHANGED <<selectedLocation, address, isLoading, isMapLoaded,
                                  showAddModal, newPlaceCoords, msSelectedLocation,
                                  msSelectedAddress>>
  /\ IF isMapLoaded' # isMapLoaded
       THEN MarkersEffect(isMapLoaded', markers)
       ELSE UNCHANGED <<injectedMarkers, mapCrashed>>
  /\ UNCHANGED <<markers, newPlaceName, newPlaceDesc, userRole, mapToken, asyncStorageToken,
                 rolePc, placesPc, addRequests, userLocation, hasCenteredInitial>>
  /\ injectedCommands' = {}
  /\ UNCHANGED <<msSearchQuery, searchActive, frameCallbacks>>

\* "load token and user role" effect: AsyncStorage.getItem('token') resolves
RoleEffectGotToken ==
  /\ ~mapCrashed
  /\ rolePc = "getItem"
  /\ IF TruthyString(asyncStorageToken)
       THEN /\ mapToken' = asyncStorageToken
            /\ rolePc' = "fetchMe"
       ELSE /\ UNCHANGED mapToken
            /\ rolePc' = "done"
  /\ mapAlert' = None
  /\ locationSelectCalls' = 0
  /\ UNCHANGED <<selectedLocation, address, isLoading, isMapLoaded, markers, showAddModal,
                 newPlaceCoords, newPlaceName, newPlaceDesc, userRole, asyncStorageToken,
                 placesPc, addRequests, msSelectedLocation, msSelectedAddress,
                 userLocation, hasCenteredInitial>>
  /\ UNCHANGED <<injectedMarkers, mapCrashed>>
  /\ injectedCommands' = {}
  /\ UNCHANGED <<msSearchQuery, searchActive, frameCallbacks>>

\* "load token and user role" effect: GET /me answers (ok with a role, not ok,
\* or the request throws)
RoleEffectMeAnswered(ok, role) ==
  /\ ~mapCrashed
  /\ rolePc = "fetchMe"
  /\ rolePc' = "done"
  /\ userRole' = IF ok THEN role ELSE userRole
  /\ mapAlert' = None
  /\ locationSelectCalls' = 0
  /\ UNCHANGED <<selectedLocation, address, isLoading, isMapLoaded, markers, showAddModal,
                 newPlaceCoords, newPlaceName, newPlaceDesc, mapToken, asyncStorageToken,
                 placesPc, addRequests, msSelectedLocation, msSelectedAddress,
                 userLocation, hasCenteredInitial>>
  /\ UNCHANGED <<injectedMarkers, mapCrashed>>
  /\ injectedCommands' = {}
  /\ UNCHANGED <<msSearchQuery, searchActive, frameCallbacks>>

\* "fetch places" effect: GET /places answers
PlacesEffectAnswered(ok, data) ==
  /\ ~mapCrashed
  /\ placesPc = "fetching"
  /\ placesPc' = IF ok THEN "done" ELSE "failed"
  /\ markers' = IF ok THEN data ELSE markers
  /\ IF ok
       THEN MarkersEffect(isMapLoaded, data)
       ELSE UNCHANGED <<injectedMarkers, mapCrashed>>
  /\ mapAlert' = None
  /\ locationSelectCalls' = 0
  /\ UNCHANGED <<selectedLocation, address, isLoading, isMapLoaded, showAddModal,
                 newPlaceCoords, newPlaceName, newPlaceDesc, userRole, mapToken,
                 asyncStorageToken, rolePc, addRequests, msSelectedLocation,
                 msSelectedAddress, userLocation, hasCenteredInitial>>
  /\ injectedCommands' = {}
  /\ UNCHANGED <<msSearchQuery, searchActive, frameCallbacks>>

\* the text fields of the modal
setNewPlaceName(text) ==
  /\ ~mapCrashed
  /\ showAddModal
  /\ newPlaceName' = text
  /\ mapAlert' = None
  /\ locationSelectCalls' = 0
  /\ UNCHANGED <<selectedLocation, address, isLoading, isMapLoaded, markers, showAddModal,
                 newPlaceCoords, newPlaceDesc, userRole, mapToken, asyncStorageToken,
                 rolePc, placesPc, addRequests, msSelectedLocation, msSelectedAddress,
                 userLocation, hasCenteredInitial>>
  /\ UNCHANGED <<injectedMarkers, mapCrashed>>
  /\ injectedCommands' = {}
  /\ UNCHANGED <<msSearchQuery, searchActive, frameCallbacks>>

setNewPlaceDesc(text) ==
  /\ ~mapCrashed
  /\ showAddModal
  /\ newPlaceDesc' = text
  /\ mapAlert' = None
  /\ locationSelectCalls' = 0
  /\ UNCHANGED <<selectedLocation, address, isLoading, isMapLoaded, markers, showAddModal,
                 newPlaceCoords, newPlaceName, userRole, mapToken, asyncStorageToken,
                 rolePc, placesPc, addRequests, msSelectedLocation, msSelectedAddress,
                 userLocation, hasCenteredInitial>>
  /\ UNCHANGED <<injectedMarkers, mapCrashed>>
  /\ injectedCommands' = {}
  /\ UNCHANGED <<msSearchQuery, searchActive, frameCallbacks>>

\* the modal's cancel button
CancelAddModal ==
  /\ ~mapCrashed
  /\ showAddModal
  /\ showAddModal' = FALSE
  /\ newPlaceCoords' = None
  /\ mapAlert' = None
  /\ locationSelectCalls' = 0
  /\ UNCHANGED <<selectedLocation, address, isLoading, isMapLoaded, markers,
                 newPlaceName, newPlaceDesc, userRole, mapToken, asyncStorageToken,
                 rolePc, placesPc, addRequests, msSelectedLocation, msSelectedAddress,
                 userLocation, hasCenteredInitial>>
  /\ UNCHANGED <<injectedMarkers, mapCrashed>>
  /\ injectedCommands' = {}
  /\ UNCHANGED <<msSearchQuery, searchActive, frameCallbacks>>

\* handleAddMarker up to its await: nothing is sent without coordinates,
\* otherwise the request is sent with the values of this render
handleAddMarker ==
  /\ ~mapCrashed
  /\ showAddModal
  /\ Len(markers) < MaxMarkers
  /\ Cardinality(addRequests) < MaxAddRequests
  /\ IF newPlaceCoords = None
       THEN UNCHANGED addRequests
       ELSE addRequests' = addRequests \cup
              {[n |-> CHOOSE k \in 1..MaxAddRequests : \A r \in addRequests : r.n # k,
                markers |-> markers, token |-> mapToken, name |-> newPlaceName,
                desc |-> newPlaceDesc, coords |-> newPlaceCoords[1]]}
  /\ mapAlert' = None
  /\ locationSelectCalls' = 0
  /\ UNCHANGED <<selectedLocation, address, isLoading, isMapLoaded, markers, showAddModal,
                 newPlaceCoords, newPlaceName, newPlaceDesc, userRole, mapToken,
                 asyncStorageToken, rolePc, placesPc, msSelectedLocation,
                 msSelectedAddress, userLocation, hasCenteredInitial>>
  /\ UNCHANGED <<injectedMarkers, mapCrashed>>
  /\ injectedCommands' = {}
  /\ UNCHANGED <<msSearchQuery, searchActive, frameCallbacks>>

\* the place POST /places answers for a request
Created(req) == Place(req.coords.latitude, req.coords.longitude, req.name, req.desc)

\* handleAddMarker after its await: POST /places answered ok
handleAddMarkerOk(req) ==
  /\ ~mapCrashed
  /\ req \in addRequests
  /\ addRequests' = addRequests \ {req}
  /\ markers' = Append(req.markers, Created(req))
  /\ MarkersEffect(isMapLoaded, markers')
  /\ showAddModal' = FALSE
  /\ newPlaceCoords' = None
  /\ newPlaceName' = ""
  /\ newPlaceDesc' = ""
  /\ mapAlert' = None
  /\ locationSelectCalls' = 0
  /\ UNCHANGED <<selectedLocation, address, isLoading, isMapLoaded, userRole, mapToken,
                 asyncStorageToken, rolePc, placesPc, msSelectedLocation,
                 msSelectedAddress, userLocation, hasCenteredInitial>>
  /\ injectedCommands' = {}
  /\ UNCHANGED <<msSearchQuery, searchActive, frameCallbacks>>

\* handleAddMarker after its await: POST /places answered not ok, or threw
handleAddMarkerFailed(req, threw) ==
  /\ ~mapCrashed
  /\ req \in addRequests
  /\ addRequests' = addRequests \ {req}
  /\ mapAlert' = Some(IF threw THEN "error while adding the marker"
                      ELSE "could not add the marker")
  /\ locationSelectCalls' = 0
  /\ UNCHANGED <<selectedLocation, address, isLoading, isMapLoaded, markers, showAddModal,
                 newPlaceCoords, newPlaceName, newPlaceDesc, userRole, mapToken,
                 asyncStorageToken, rolePc, placesPc, msSelectedLocation,
                 msSelectedAddress, userLocation, hasCenteredInitial>>
  /\ UNCHANGED <<injectedMarkers, mapCrashed>>
  /\ injectedCommands' = {}
  /\ UNCHANGED <<msSearchQuery, searchActive, frameCallbacks>>

\* MapScreen: the position of the device arrives, and the effect on
\* userLocation centres the map once
LocationResolved(position) ==
  /\ ~mapCrashed
  /\ userLocation = None
  /\ userLocation' = Some(position)
  /\ IF ~hasCenteredInitial
       THEN /\ msSelectedLocation' = position
            /\ msSelectedAddress' = Some("My location")
            /\ hasCenteredInitial' = TRUE
       ELSE UNCHANGED <<msSelectedLocation, msSelectedAddress, hasCenteredInitial>>
  /\ mapAlert' = None
  /\ locationSelectCalls' = 0
  /\ UNCHANGED <<selectedLocation, address, isLoading, isMapLoaded, markers, showAddModal,
                 newPlaceCoords, newPlaceName, newPlaceDesc, userRole, mapToken,
                 asyncStorageToken, rolePc, placesPc, addRequests>>
  /\ UNCHANGED <<injectedMarkers, mapCrashed>>
  /\ injectedCommands' = {}
  /\ UNCHANGED <<msSearchQuery, searchActive, frameCallbacks>>

\* MapScreen.handleRecenter
handleRecenter ==
  /\ ~mapCrashed
  /\ msSelectedLocation' = IF userLocation # None THEN userLocation[1] ELSE msSelectedLocation
  /\ mapAlert' = None
  /\ locationSelectCalls' = 0
  /\ UNCHANGED <<selectedLocation, address, isLoading, isMapLoaded, markers, showAddModal,
                 newPlaceCoords, newPlaceName, newPlaceDesc, userRole, mapToken,
                 asyncStorageToken, rolePc, placesPc, addRequests, msSelectedAddress,
                 userLocation, hasCenteredInitial>>
  /\ UNCHANGED <<injectedMarkers, mapCrashed>>
  /\ injectedCommands' = {}
  /\ UNCHANGED <<msSearchQuery, searchActive, frameCallbacks>>

\* String.prototype.replace(/"/g, '\\"'): a backslash before every quote
RECURSIVE escapeQuotes(_)
escapeQuotes(s) ==
  IF s = <<>> THEN <<>>
  ELSE IF Head(s) = "\"" THEN <<"\\", "\"">> \o escapeQuotes(Tail(s))
  ELSE <<Head(s)>> \o escapeQuotes(Tail(s))

\* the character an escape sequence of a string literal stands for
Unescape(c) == IF c = "n" THEN LF ELSE c

\* the value of the string literal "..." that the widget's JavaScript reads
\* from the injected text put between the quotes; None when the text does not
\* make one string literal (a quote or a lone backslash ends it early)
RECURSIVE LiteralValue(_)
LiteralValue(s) ==
  IF s = <<>> THEN Some(<<>>)
  ELSE IF Head(s) = "\"" THEN None
  ELSE IF Head(s) = "\\"
    THEN IF Len(s) = 1 THEN None
         ELSE LET rest == LiteralValue(Drop(s, 2)) IN
                IF rest = None THEN None ELSE Some(<<Unescape(s[2])>> \o rest[1])
  ELSE LET rest == LiteralValue(Tail(s)) IN
         IF rest = None THEN None ELSE Some(<<Head(s)>> \o rest[1])

\* webViewRef.current?.injectJavaScript of a command with a text argument
Inject(fn, sanitized, start) ==
  injectedCommands' =
    {[fn |-> fn, source |-> sanitized, argument |-> LiteralValue(sanitized), start |-> start]}

\* YandexMap.searchAddress
searchAddress(query) ==
  IF trim(query) = <<>>
    THEN injectedCommands' = {}
    ELSE Inject("searchAddress", escapeQuotes(trim(query)), None)

\* YandexMap.buildRoute
buildRoute(destination, start) ==
  IF trim(destination) = <<>>
    THEN injectedCommands' = {}
    ELSE Inject("buildRoute", escapeQuotes(trim(destination)), start)

\* what the actions of the map's search leave alone
SearchFrame ==
  /\ mapAlert' = None
  /\ locationSelectCalls' = 0
  /\ UNCHANGED <<selectedLocation, address, isLoading, isMapLoaded, markers, showAddModal,
                 newPlaceCoords, newPlaceName, newPlaceDesc, userRole, mapToken,
                 asyncStorageToken, rolePc, placesPc, addRequests, injectedMarkers,
                 mapCrashed, msSelectedLocation, msSelectedAddress, userLocation,
                 hasCenteredInitial>>

\* onChangeText of the search field, and its clear button
setSearchQuery(text) ==
  /\ ~mapCrashed
  /\ msSearchQuery' = text
  /\ injectedCommands' = {}
  /\ UNCHANGED <<searchActive, frameCallbacks>>
  /\ SearchFrame

\* MapScreen.performSearch: the search field is submitted
performSearch ==
  /\ ~mapCrashed
  /\ IF trim(msSearchQuery) = <<>>
       THEN injectedCommands' = {}
       ELSE searchAddress(trim(msSearchQuery))
  /\ UNCHANGED <<msSearchQuery, searchActive, frameCallbacks>>
  /\ SearchFrame

\* the actions other screens send to the map
ExternalTexts == {<<>>, <<" ">>, <<" ", "a">>, <<"\\", "n">>}

ExternalActions ==
  [type : {"search"}, query : {None} \cup {Some(t) : t \in ExternalTexts}]
    \cup [type : {"route"}, query : {Some(t) : t \in ExternalTexts}]

\* MapScreen.handleExternalAction
handleExternalAction(action) ==
  /\ ~mapCrashed
  /\ Cardinality(frameCallbacks) < MaxFrameCallbacks
  /\ LET trimmed == IF action.query = None THEN <<>> ELSE trim(action.query[1]) IN
       IF action.type = "search"
         THEN IF trimmed # <<>>
                THEN /\ msSearchQuery' = trimmed
                     /\ searchActive' = FALSE
                     /\ frameCallbacks' = frameCallbacks \cup
                          {[fn |-> "searchAddress", text |-> trimmed, start |-> None]}
                ELSE \* openSearch
                     /\ searchActive' = TRUE
                     /\ UNCHANGED <<msSearchQuery, frameCallbacks>>
         ELSE IF trimmed = <<>>
                THEN UNCHANGED <<msSearchQuery, searchActive, frameCallbacks>>
                ELSE /\ msSearchQuery' = trimmed
                     /\ searchActive' = FALSE
                     /\ frameCallbacks' = frameCallbacks \cup
                          {[fn |-> "buildRoute", text |-> trimmed, start |-> userLocation]}
  /\ injectedCommands' = {}
  /\ SearchFrame

\* a callback of requestAnimationFrame runs
RunAnimationFrame(callback) ==
  /\ ~mapCrashed
  /\ callback \in frameCallbacks
  /\ frameCallbacks' = frameCallbacks \ {callback}
  /\ IF callback.fn = "searchAddress"
       THEN searchAddress(callback.text)
       ELSE buildRoute(callback.text, callback.start)
  /\ UNCHANGED <<msSearchQuery, searchActive>>
  /\ SearchFrame

\* a call of searchAddress on the YandexMap handle
HandleSearchAddress(query) ==
  /\ ~mapCrashed
  /\ searchAddress(query)
  /\ UNCHANGED <<msSearchQuery, searchActive, frameCallbacks>>
  /\ SearchFrame

\* a call of buildRoute on the YandexMap handle
HandleBuildRoute(destination, start) ==
  /\ ~mapCrashed
  /\ buildRoute(destination, start)
  /\ UNCHANGED <<msSearchQuery, searchActive, frameCallbacks>>
  /\ SearchFrame

DevicePositions == {[latitude |-> 47, longitude |-> 38]}

\* texts typed into the search field of the map or given to the handle
MapQueryTexts == {<<>>, <<" ">>, <<"a">>, <<" ", "a", " ">>, <<"\"">>, <<"\\", "n">>}

\* what GET /places answers
PlaceLists == {<<>>, <<StoredPlace>>, <<UndescribedPlace, StoredPlace>>}

\* the map bridge: every message of the widget, the position of the device
MapNext ==
  \/ /\ \E raw \in Messages : handleWebViewMessage(raw)
     /\ UNCHANGED <<searchVars, authVars, dbVars, contentVars>>
  \/ /\ RoleEffectGotToken
     /\ UNCHANGED <<searchVars, authVars, dbVars, contentVars>>
  \/ /\ \E ok \in BOOLEAN, role \in MeRoles : RoleEffectMeAnswered(ok, role)
     /\ UNCHANGED <<searchVars, authVars, dbVars, contentVars>>
  \/ /\ \E ok \in BOOLEAN, data \in PlaceLists : PlacesEffectAnswered(ok, data)
     /\ UNCHANGED <<searchVars, authVars, dbVars, contentVars>>
  \/ /\ CancelAddModal
     /\ UNCHANGED <<searchVars, authVars, dbVars, contentVars>>
  \/ /\ \E position \in DevicePositions : LocationResolved(position)
     /\ UNCHANGED <<searchVars, authVars, dbVars, contentVars>>
  \/ /\ handleRecenter
     /\ UNCHANGED <<searchVars, authVars, dbVars, contentVars>>

\* searching and routing on the map: the search field, the actions of other
\* screens, the handle of YandexMap
MapSearchNext ==
  \/ /\ \E text \in MapQueryTexts : setSearchQuery(text)
     /\ UNCHANGED <<searchVars, authVars, dbVars, contentVars>>
  \/ /\ performSearch
     /\ UNCHANGED <<searchVars, authVars, dbVars, contentVars>>
  \/ /\ \E action \in ExternalActions : handleExternalAction(action)
     /\ UNCHANGED <<searchVars, authVars, dbVars, contentVars>>
  \/ /\ \E callback \in frameCallbacks : RunAnimationFrame(callback)
     /\ UNCHANGED <<searchVars, authVars, dbVars, contentVars>>
  \/ /\ \E query \in MapQueryTexts : HandleSearchAddress(query)
     /\ UNCHANGED <<searchVars, authVars, dbVars, contentVars>>
  \/ /\ \E destination \in MapQueryTexts, start \in {None} \cup {Some(d) : d \in DevicePositions} :
          HandleBuildRoute(destination, start)
     /\ UNCHANGED <<searchVars, authVars, dbVars, contentVars>>
  \/ /\ \E position \in DevicePositions : LocationResolved(position)
     /\ UNCHANGED <<searchVars, authVars, dbVars, contentVars>>

\* the messages that matter to adding a place
PlacesMessages ==
  {m \in ParsedMessages :
     \/ m.type = "MAP_LOADED"
     \/ m.type = "MAP_LONG_PRESS" /\ m.address = None /\ m.longitude = Some(37)}

\* adding a place: long presses, the modal and POST /places
PlacesNext ==
  \/ /\ \E raw \in PlacesMessages : handleWebViewMessage(raw)
     /\ UNCHANGED <<searchVars, authVars, dbVars, contentVars>>
  \/ /\ RoleEffectGotToken
     /\ UNCHANGED <<searchVars, authVars, dbVars, contentVars>>
  \/ /\ \E ok \in BOOLEAN, role \in MeRoles : RoleEffectMeAnswered(ok, role)
     /\ UNCHANGED <<searchVars, authVars, dbVars, contentVars>>
  \/ /\ \E ok \in BOOLEAN, data \in PlaceLists : PlacesEffectAnswered(ok, data)
     /\ UNCHANGED <<searchVars, authVars, dbVars, contentVars>>
  \/ /\ \E text \in PlaceNames : setNewPlaceName(text)
     /\ UNCHANGED <<searchVars, authVars, dbVars, contentVars>>
  \/ /\ \E text \in PlaceDescs : setNewPlaceDesc(text)
     /\ UNCHANGED <<searchVars, authVars, dbVars, contentVars>>
  \/ /\ CancelAddModal
     /\ UNCHANGED <<searchVars, authVars, dbVars, contentVars>>
  \/ /\ handleAddMarker
     /\ UNCHANGED <<searchVars, authVars, dbVars, contentVars>>
  \/ /\ \E req \in addRequests : handleAddMarkerOk(req)
     /\ UNCHANGED <<searchVars, authVars, dbVars, contentVars>>
  \/ /\ \E req \in addRequests, threw \in BOOLEAN : handleAddMarkerFailed(req, threw)
     /\ UNCHANGED <<searchVars, authVars, dbVars, contentVars>>

(***************************************************************************)
(* AuthScreen, the session store, ProfileScreen                            *)
(***************************************************************************)
isRegister == mode = "register"
isCompany == accountType = "company"

Blank(text) == Len(trim(text)) = 0

canSubmitNoTrim ==
  /\ Len(email) > 0
  /\ Len(password) > 0
  /\ (~isRegister \/ (IF isCompany THEN Len(companyName) > 0 ELSE Len(name) > 0))

canSubmit ==
  /\ Len(trim(email)) > 0
  /\ Len(trim(password)) > 0
  /\ (~isRegister \/ (IF isCompany THEN Len(trim(companyName)) > 0 ELSE Len(trim(name)) > 0))

\* the input fields the screen renders for the mode and account type
DisplayedFields ==
  (IF ~isCompany THEN {"name"} ELSE {})
  \cup (IF isRegister /\ isCompany THEN {"companyName"} ELSE {})
  \cup (IF isCompany THEN {"companyINN"} ELSE {})
  \cup (IF isRegister THEN {"email"} ELSE {})
  \cup {"password"}

FieldValue(field) ==
  CASE field = "name" -> name
    [] field = "companyName" -> companyName
    [] field = "companyINN" -> companyINN
    [] field = "email" -> email
    [] field = "password" -> password

\* the session store: a module variable read and written by three functions
getUserSession == userSession
setUserSession(session) == userSession' = Some(session)
clearUserSession == userSession' = None

\* router.replace('/profile'): the profile screen gains focus; when it is
\* mounted by the navigation its state starts from getUserSession()
ReplaceWithProfile(cause, mounts) ==
  /\ route' = "/profile"
  /\ focusPending' = TRUE
  /\ focusCause' = cause
  /\ profileSession' = IF mounts THEN userSession' ELSE profileSession

AuthInit ==
  /\ mode = "login"
  /\ email = <<>>
  /\ password = <<>>
  /\ name = <<>>
  /\ companyName = <<>>
  /\ companyINN = <<>>
  /\ accountType = "user"
  /\ authRequests = {}
  /\ authAlert = None
  /\ localStorageToken = None
  /\ hasLocalStorage \in BOOLEAN
  /\ userSession = None
  /\ route = "/login"
  /\ profileSession = None
  /\ focusPending = FALSE
  /\ focusCause = "none"
  /\ users \in [{<<"a">>} -> Roles \cup {"none"}]

formVars == <<mode, email, password, name, companyName, companyINN, accountType>>
flowVars == <<authRequests, localStorageToken, hasLocalStorage, userSession, route,
              profileSession, focusPending, focusCause, users>>

\* the login screen is shown and no effect is waiting to run
LoginScreenActive == route = "/login" /\ ~focusPending

setMode ==
  /\ LoginScreenActive
  /\ mode' = IF isRegister THEN "login" ELSE "register"
  /\ authAlert' = None
  /\ UNCHANGED <<email, password, name, companyName, companyINN, accountType, flowVars>>

setAccountType(type) ==
  /\ LoginScreenActive
  /\ accountType' = type
  /\ authAlert' = None
  /\ UNCHANGED <<mode, email, password, name, companyName, companyINN, flowVars>>

setEmail(text) ==
  /\ LoginScreenActive /\ "email" \in DisplayedFields
  /\ email' = text
  /\ authAlert' = None
  /\ UNCHANGED <<mode, password, name, companyName, companyINN, accountType, flowVars>>

setPassword(text) ==
  /\ LoginScreenActive /\ "password" \in DisplayedFields
  /\ password' = text
  /\ authAlert' = None
  /\ UNCHANGED <<mode, email, name, companyName, companyINN, accountType, flowVars>>

setName(text) ==
  /\ LoginScreenActive /\ "name" \in DisplayedFields
  /\ name' = text
  /\ authAlert' = None
  /\ UNCHANGED <<mode, email, password, companyName, companyINN, accountType, flowVars>>

setCompanyName(text) ==
  /\ LoginScreenActive /\ "companyName" \in DisplayedFields
  /\ companyName' = text
  /\ authAlert' = None
  /\ UNCHANGED <<mode, email, password, name, companyINN, accountType, flowVars>>

setCompanyINN(text) ==
  /\ LoginScreenActive /\ "companyINN" \in DisplayedFields
  /\ companyINN' = text
  /\ authAlert' = None
  /\ UNCHANGED <<mode, email, password, name, companyName, accountType, flowVars>>

\* the role sent on registration
RegisterRole == IF isCompany THEN "businessOwner" ELSE "user"

\* the request handleSubmit sends, with the values this call captured
NewAuthRequest ==
  [n |-> CHOOSE k \in 1..MaxAuthRequests : \A r \in authRequests : r.n # k,
   kind |-> mode,
   login |-> trim(email),
   role |-> IF isRegister THEN RegisterRole ELSE "none",
   isCompany |-> isCompany]

\* handleSubmit up to its await
handleSubmit ==
  /\ LoginScreenActive
  /\ IF ~canSubmit
       THEN /\ authAlert' = Some("fill in all fields")
            /\ UNCHANGED authRequests
       ELSE /\ Cardinality(authRequests) < MaxAuthRequests
            /\ authRequests' = authRequests \cup {NewAuthRequest}
            /\ authAlert' = None
  /\ UNCHANGED <<formVars, localStorageToken, hasLocalStorage, userSession, route,
                 profileSession, focusPending, focusCause, users>>

\* the session built from an answer: data.user.username and the account type
SessionOf(username, type) == [name |-> username, accountType |-> type]

\* accountType of the session built on login
LoginAccountTypeFromChip(role, req) == IF req.isCompany THEN "company" ELSE "user"

LoginAccountType(role, req) == IF role = "businessOwner" THEN "company" ELSE "user"

\* accountType of the session built on registration
RegisterAccountType(req) == IF req.isCompany THEN "company" ELSE "user"

\* a success that navigates without having stored the session
SuccessWithoutSession(token, session, mounts) ==
  /\ localStorageToken' = Some(token)
  /\ UNCHANGED userSession
  /\ ReplaceWithProfile("login", mounts)
  /\ authAlert' = None

\* the last three statements of a successful register / login, inside the try:
\* localStorage.setItem('token', ...) throws where no localStorage exists, and
\* the catch then shows the network alert
Success(token, session, mounts) ==
  IF hasLocalStorage
    THEN /\ localStorageToken' = Some(token)
         /\ setUserSession(session)
         /\ ReplaceWithProfile("login", mounts)
         /\ authAlert' = None
    ELSE /\ authAlert' = Some("network error")
         /\ UNCHANGED <<localStorageToken, userSession, route, profileSession,
                        focusPending, focusCause>>

\* a failure that still stores the token
FailureStoringToken(alert) ==
  /\ authAlert' = Some(alert)
  /\ localStorageToken' = Some("token")
  /\ UNCHANGED <<userSession, route, profileSession, focusPending, focusCause>>

\* res.ok is false, or fetch / res.json() threw: an alert and nothing else
Failure(alert) ==
  /\ authAlert' = Some(alert)
  /\ UNCHANGED <<localStorageToken, userSession, route, profileSession,
                 focusPending, focusCause>>

\* the backend: POST /auth/register inserts the user with the role of the
\* request unless the username is taken
ServerRegisters(req) ==
  /\ users[req.login] = "none"
  /\ users' = [users EXCEPT ![req.login] = req.role]

Outcomes == {"ok", "not ok", "throws"}

\* handleSubmit after its awaits, register branch
RegisterAnswered(req, outcome, mounts) ==
  /\ req \in authRequests /\ req.kind = "register"
  /\ authRequests' = authRequests \ {req}
  /\ CASE outcome = "ok" ->
            /\ ServerRegisters(req)
            /\ Success("token", SessionOf(req.login, RegisterAccountType(req)), mounts)
       [] outcome = "not ok" ->
            /\ UNCHANGED users
            /\ Failure("registration failed")
       [] outcome = "throws" ->
            /\ \/ UNCHANGED users
               \/ ServerRegisters(req)
            /\ Failure("network error")
  /\ UNCHANGED <<formVars, hasLocalStorage>>

\* handleSubmit after its awaits, login branch; the backend answers ok only
\* for a user of the table, with the role of its row
LoginAnswered(req, outcome, mounts) ==
  /\ req \in authRequests /\ req.kind = "login"
  /\ authRequests' = authRequests \ {req}
  /\ CASE outcome = "ok" ->
            /\ users[req.login] # "none"
            /\ Success("token",
                       SessionOf(req.login, LoginAccountType(users[req.login], req)),
                       mounts)
       [] outcome = "not ok" -> Failure("login failed")
       [] outcome = "throws" -> Failure("network error")
  /\ UNCHANGED <<formVars, hasLocalStorage, users>>

\* [primary name of the local variant] name, else the email, else a guest
PrimaryName ==
  LET typed == IF isRegister /\ isCompany THEN trim(companyName) ELSE trim(name) IN
    IF typed # <<>> THEN typed
    ELSE IF trim(email) # <<>> THEN trim(email)
    ELSE <<"g">>

\* handleSubmit of the variant of the screen that asks no server
handleSubmitLocal(mounts) ==
  /\ LoginScreenActive
  /\ IF ~canSubmit
       THEN /\ authAlert' = Some("fill in all fields")
            /\ UNCHANGED <<userSession, route, profileSession, focusPending, focusCause>>
       ELSE /\ setUserSession(SessionOf(PrimaryName, accountType))
            /\ ReplaceWithProfile("login", mounts)
            /\ authAlert' = None
  /\ UNCHANGED <<formVars, authRequests, localStorageToken, hasLocalStorage, users>>

\* pressing the profile tab
OpenProfileTab(mounts) ==
  /\ ~focusPending
  /\ route' = "/profile"
  /\ focusPending' = TRUE
  /\ focusCause' = "tab"
  /\ profileSession' = IF mounts THEN userSession ELSE profileSession
  /\ authAlert' = None
  /\ UNCHANGED <<formVars, authRequests, localStorageToken, hasLocalStorage, userSession,
                 users>>

\* ProfileScreen's useFocusEffect
ProfileFocus ==
  /\ focusPending
  /\ focusPending' = FALSE
  /\ IF getUserSession = None
       THEN /\ route' = "/login"
            /\ UNCHANGED profileSession
       ELSE /\ profileSession' = getUserSession
            /\ UNCHANGED route
  /\ authAlert' = None
  /\ UNCHANGED <<formVars, authRequests, localStorageToken, hasLocalStorage, userSession,
                 focusCause, users>>

\* a logout that keeps the local session
handleLogoutKeepsLocal ==
  /\ route = "/profile" /\ ~focusPending /\ profileSession # None
  /\ clearUserSession
  /\ route' = "/login"
  /\ authAlert' = None
  /\ UNCHANGED <<formVars, authRequests, localStorageToken, hasLocalStorage,
                 profileSession, focusPending, focusCause, users>>

\* ProfileScreen.handleLogout, behind the button the screen renders with a session
handleLogout ==
  /\ route = "/profile" /\ ~focusPending /\ profileSession # None
  /\ clearUserSession
  /\ profileSession' = None
  /\ route' = "/login"
  /\ authAlert' = None
  /\ UNCHANGED <<formVars, authRequests, localStorageToken, hasLocalStorage,
                 focusPending, focusCause, users>>

\* texts typed into the fields
FormTexts == {<<>>, <<" ">>, <<"a">>}
FlowTexts == {<<"a">>}

\* the form: every field with blank and non-blank texts, both variants of
\* handleSubmit
FormNext ==
  \/ /\ setMode
     /\ UNCHANGED <<searchVars, mapVars, dbVars, contentVars>>
  \/ /\ \E type \in {"user", "company"} : setAccountType(type)
     /\ UNCHANGED <<searchVars, mapVars, dbVars, contentVars>>
  \/ /\ \E text \in FormTexts : setEmail(text)
     /\ UNCHANGED <<searchVars, mapVars, dbVars, contentVars>>
  \/ /\ \E text \in FormTexts : setPassword(text)
     /\ UNCHANGED <<searchVars, mapVars, dbVars, contentVars>>
  \/ /\ \E text \in FormTexts : setName(text)
     /\ UNCHANGED <<searchVars, mapVars, dbVars, contentVars>>
  \/ /\ \E text \in FormTexts : setCompanyName(text)
     /\ UNCHANGED <<searchVars, mapVars, dbVars, contentVars>>
  \/ /\ \E text \in FlowTexts : setCompanyINN(text)
     /\ UNCHANGED <<searchVars, mapVars, dbVars, contentVars>>
  \/ /\ handleSubmit
     /\ UNCHANGED <<searchVars, mapVars, dbVars, contentVars>>
  \/ /\ \E mounts \in BOOLEAN : handleSubmitLocal(mounts)
     /\ UNCHANGED <<searchVars, mapVars, dbVars, contentVars>>
  \/ /\ ProfileFocus
     /\ UNCHANGED <<searchVars, mapVars, dbVars, contentVars>>
  \/ /\ handleLogout
     /\ UNCHANGED <<searchVars, mapVars, dbVars, contentVars>>

\* the session flow: requests and their answers, the profile screen
AuthNext ==
  \/ /\ setMode
     /\ UNCHANGED <<searchVars, mapVars, dbVars, contentVars>>
  \/ /\ \E type \in {"user", "company"} : setAccountType(type)
     /\ UNCHANGED <<searchVars, mapVars, dbVars, contentVars>>
  \/ /\ \E text \in FlowTexts : setEmail(text)
     /\ UNCHANGED <<searchVars, mapVars, dbVars, contentVars>>
  \/ /\ \E text \in FlowTexts : setPassword(text)
     /\ UNCHANGED <<searchVars, mapVars, dbVars, contentVars>>
  \/ /\ \E text \in FlowTexts : setName(text)
     /\ UNCHANGED <<searchVars, mapVars, dbVars, contentVars>>
  \/ /\ \E text \in FlowTexts : setCompanyName(text)
     /\ UNCHANGED <<searchVars, mapVars, dbVars, contentVars>>
  \/ /\ handleSubmit
     /\ UNCHANGED <<searchVars, mapVars, dbVars, contentVars>>
  \/ /\ \E req \in authRequests, outcome \in Outcomes, mounts \in BOOLEAN :
          RegisterAnswered(req, outcome, mounts)
     /\ UNCHANGED <<searchVars, mapVars, dbVars, contentVars>>
  \/ /\ \E req \in authRequests, outcome \in Outcomes, mounts \in BOOLEAN :
          LoginAnswered(req, outcome, mounts)
     /\ UNCHANGED <<searchVars, mapVars, dbVars, contentVars>>
  \/ /\ \E mounts \in BOOLEAN : OpenProfileTab(mounts)
     /\ UNCHANGED <<searchVars, mapVars, dbVars, contentVars>>
  \/ /\ ProfileFocus
     /\ UNCHANGED <<searchVars, mapVars, dbVars, contentVars>>
  \/ /\ handleLogout
     /\ UNCHANGED <<searchVars, mapVars, dbVars, contentVars>>

(***************************************************************************)
(* The database schema (src/unnamed/part_002): users, places, reviews       *)
(***************************************************************************)
DbInit ==
  /\ dbUsers = {}
  /\ dbPlaces = <<>>
  /\ dbReviews = {}
  /\ nextUserId = 0
  /\ nextPlaceId = 0
  /\ nextReviewId = 0

\* ids a statement can name, existing or not
RowIds == 1..MaxRows

\* values of places.owner_id in a statement: NULL or an id
OwnerIds == {None} \cup {Some(u) : u \in RowIds}

\* INSERT INTO users
InsertUser ==
  /\ nextUserId < MaxRows
  /\ nextUserId' = nextUserId + 1
  /\ dbUsers' = dbUsers \cup {nextUserId + 1}
  /\ UNCHANGED <<dbPlaces, dbReviews, nextPlaceId, nextReviewId>>

\* FOREIGN KEY (owner_id) REFERENCES users (id): NULL, or the id of a row
OwnerExists(owner_id) == owner_id = None \/ owner_id[1] \in dbUsers

\* INSERT INTO places: refused when owner_id names no user
InsertPlace(owner_id) ==
  /\ nextPlaceId < MaxRows
  /\ IF OwnerExists(owner_id)
       THEN /\ nextPlaceId' = nextPlaceId + 1
            /\ dbPlaces' = [p \in DOMAIN dbPlaces \cup {nextPlaceId + 1} |->
                              IF p = nextPlaceId + 1 THEN owner_id ELSE dbPlaces[p]]
       ELSE UNCHANGED <<dbPlaces, nextPlaceId>>
  /\ UNCHANGED <<dbUsers, dbReviews, nextUserId, nextReviewId>>

\* INSERT INTO reviews: place_id and user_id are NOT NULL and must name rows
InsertReview(place_id, user_id) ==
  /\ nextReviewId < MaxRows
  /\ IF place_id \in DOMAIN dbPlaces /\ user_id \in dbUsers
       THEN /\ nextReviewId' = nextReviewId + 1
            /\ dbReviews' = dbReviews \cup {[id |-> nextReviewId + 1, place_id |-> place_id,
                                             user_id |-> user_id]}
       ELSE UNCHANGED <<dbReviews, nextReviewId>>
  /\ UNCHANGED <<dbUsers, dbPlaces, nextUserId, nextPlaceId>>

DeleteUserOnly(u) ==
  /\ u \in dbUsers
  /\ dbUsers' = dbUsers \ {u}
  /\ UNCHANGED <<dbPlaces, dbReviews, nextUserId, nextPlaceId, nextReviewId>>

\* DELETE FROM users: ON DELETE SET NULL on places.owner_id, ON DELETE CASCADE
\* on reviews.user_id
DeleteUser(u) ==
  /\ u \in dbUsers
  /\ dbUsers' = dbUsers \ {u}
  /\ dbPlaces' = [p \in DOMAIN dbPlaces |->
                    IF dbPlaces[p] = Some(u) THEN None ELSE dbPlaces[p]]
  /\ dbReviews' = {r \in dbReviews : r.user_id # u}
  /\ UNCHANGED <<nextUserId, nextPlaceId, nextReviewId>>

\* DELETE FROM places: ON DELETE CASCADE on reviews.place_id
DeletePlace(p) ==
  /\ p \in DOMAIN dbPlaces
  /\ dbPlaces' = [q \in DOMAIN dbPlaces \ {p} |-> dbPlaces[q]]
  /\ dbReviews' = {r \in dbReviews : r.place_id # p}
  /\ UNCHANGED <<dbUsers, nextUserId, nextPlaceId, nextReviewId>>

\* DELETE FROM reviews
DeleteReview(r) ==
  /\ r \in dbReviews
  /\ dbReviews' = dbReviews \ {r}
  /\ UNCHANGED <<dbUsers, dbPlaces, nextUserId, nextPlaceId, nextReviewId>>

\* any sequence of inserts and deletes
DbNext ==
  \/ /\ InsertUser
     /\ UNCHANGED <<searchVars, mapVars, authVars, contentVars>>
  \/ /\ \E owner_id \in OwnerIds : InsertPlace(owner_id)
     /\ UNCHANGED <<searchVars, mapVars, authVars, contentVars>>
  \/ /\ \E place_id \in RowIds, user_id \in RowIds : InsertReview(place_id, user_id)
     /\ UNCHANGED <<searchVars, mapVars, authVars, contentVars>>
  \/ /\ \E u \in RowIds : DeleteUser(u)
     /\ UNCHANGED <<searchVars, mapVars, authVars, contentVars>>
  \/ /\ \E p \in RowIds : DeletePlace(p)
     /\ UNCHANGED <<searchVars, mapVars, authVars, contentVars>>
  \/ /\ \E r \in dbReviews : DeleteReview(r)
     /\ UNCHANGED <<searchVars, mapVars, authVars, contentVars>>

(***************************************************************************)
(* Calls of parseNumericValue, normalizePost and normalizePosts             *)
(***************************************************************************)
\* texts given as likes, totalLikes or followers
NumericTexts ==
  {<<>>, <<"5">>, <<"a", "b">>, <<"k">>, <<"1", "2", "a">>,
   <<" ", "1", " ", "2", " ">>,
   <<"1", ",", "2", " ", "<te>", "<yeru>", "<es>">>,
   <<"1", ",", "2", ",", "3">>,
   <<"2", " ", "<EM>", "<el>", "<en>">>,
   <<"<em>", "<el>", "<en>", "4">>,
   <<"3", "K">>, <<".", "5", "k">>, <<"-", "7", ".", "5", "0">>,
   <<"1", "e", "3">>, <<"1", "e", "3", "0", "8">>, <<"2", "e", "3", "0", "8">>,
   <<"1", "e", "3", "0", "8", "k">>,
   <<"7", "e", "3", "0", "4", " ", "<em>", "<el>", "<en>">>,
   INFINITY_TEXT}

NumericValues ==
  {StringValue(t) : t \in NumericTexts}
    \cup {NumberValue(n) : n \in {FromInt(0), FromInt(5), Norm(15, -1), NaN, Infinity}}

\* lists of posts, the same post more than once included
RawLists == UNION {[1..n -> SourcePosts] : n \in 0..MaxPosts}

ContentInit ==
  /\ numericInput \in NumericValues
  /\ parsedValue = None
  /\ listInput \in RawLists
  /\ normalizedPost = None
  /\ normalizedList = None

CallParseNumericValue ==
  /\ parsedValue' = Some(parseNumericValue(numericInput))
  /\ UNCHANGED <<numericInput, listInput, normalizedPost, normalizedList>>

\* normalizePost(post, index); index is 0 when the caller leaves it out
CallNormalizePost(i, index) ==
  /\ i \in 1..Len(listInput)
  /\ normalizedPost' = Some([post |-> listInput[i], index |-> index,
                             result |-> normalizePost(listInput[i], index)])
  /\ UNCHANGED <<numericInput, parsedValue, listInput, normalizedList>>

CallNormalizePosts ==
  /\ normalizedList' = Some(normalizePosts(listInput))
  /\ UNCHANGED <<numericInput, parsedValue, listInput, normalizedPost>>

ContentNext ==
  \/ /\ CallParseNumericValue
     /\ UNCHANGED <<searchVars, mapVars, authVars, dbVars>>
  \/ /\ \E i \in 1..MaxPosts, index \in 0..MaxPosts : CallNormalizePost(i, index)
     /\ UNCHANGED <<searchVars, mapVars, authVars, dbVars>>
  \/ /\ CallNormalizePosts
     /\ UNCHANGED <<searchVars, mapVars, authVars, dbVars>>

(***************************************************************************)
(* Specifications: each screen on its own, the others at rest              *)
(***************************************************************************)
SearchIdle == SearchInit /\ postsData = <<>>
MapIdle == MapInit /\ asyncStorageToken = None
AuthIdle == AuthInit /\ hasLocalStorage /\ users[<<"a">>] = "none"
ContentIdle == ContentInit /\ numericInput = StringValue(<<>>) /\ listInput = <<>>

InitSearch == SearchInit /\ MapIdle /\ AuthIdle /\ DbInit /\ ContentIdle
InitMap == MapInit /\ SearchIdle /\ AuthIdle /\ DbInit /\ ContentIdle
InitAuth == AuthInit /\ SearchIdle /\ MapIdle /\ DbInit /\ ContentIdle
InitDb == DbInit /\ SearchIdle /\ MapIdle /\ AuthIdle /\ ContentIdle
InitContent == ContentInit /\ SearchIdle /\ MapIdle /\ AuthIdle /\ DbInit

SpecSearch == InitSearch /\ [][SearchNext]_vars

SpecMap == InitMap /\ [][MapNext]_vars

SpecPlaces == InitMap /\ [][PlacesNext]_vars

SpecMapSearch == InitMap /\ [][MapSearchNext]_vars

SpecForm == InitAuth /\ [][FormNext]_vars

SpecAuth == InitAuth /\ [][AuthNext]_vars

SpecDb == InitDb /\ [][DbNext]_vars

SpecContent == InitContent /\ [][ContentNext]_vars

(***************************************************************************)
(* Claims                                                                  *)
(***************************************************************************)
EqualIgnoringCase(s, t) == toLowerCase(s) = toLowerCase(t)

\* what C1 says a post must satisfy to be kept
C1_Wanted(post, category, query) ==
  /\ \/ category = ALL
     \/ \E t \in 1..Len(post.tags) : EqualIgnoringCase(post.tags[t], category)
  /\ \/ trim(toLowerCase(query)) = <<>>
     \/ includes(toLowerCase(join(<<post.place, post.user, post.address, post.bio>>
                                    \o post.tags)),
                 trim(toLowerCase(query)))

\* positions of data that C1 says are kept
C1_Kept(data, category, query) ==
  {i \in 1..Len(data) : C1_Wanted(data[i], category, query)}

\* the k-th smallest element of a set of positions
NthOf(S, k) == CHOOSE i \in S : Cardinality({j \in S : j < i}) = k - 1

\* C1: once the filter effect has run, the list it produced with filterPosts
\* holds exactly the posts of postsData that match the category (ignoring the
\* case of the tag) and the trimmed, lower-cased query, in their original
\* order; a query of whitespace alone filters nothing.
C1_FilterPosts ==
  ~effectsPending =>
    LET kept == C1_Kept(postsData, selectedCategory, searchQuery) IN
      /\ Len(searchResults) = Cardinality(kept)
      /\ \A k \in 1..Len(searchResults) : searchResults[k] = postsData[NthOf(kept, k)]
      /\ (trim(searchQuery) = <<>> /\ selectedCategory = ALL => searchResults = postsData)

\* a query with upper-case letters and surrounding blanks, under a category
\* chip, has kept one post of two
C1_Witness ==
  /\ ~effectsPending
  /\ searchQuery = <<" ", "B", " ">>
  /\ selectedCategory = <<"a">>
  /\ Len(postsData) = 2
  /\ Len(searchResults) = 1

\* the messages that select a location and carry both coordinates as numbers
C2_Messages ==
  {m \in Messages : /\ m.type \in {"MAP_CLICK", "SEARCH_RESULT", "ROUTE_BUILT"}
                    /\ m.latitude # None
                    /\ m.longitude # None}

\* C2: every MAP_CLICK, SEARCH_RESULT or ROUTE_BUILT message with a numeric
\* latitude and longitude, whatever their values, makes handleWebViewMessage
\* set selectedLocation to them, set address to the message's address or '',
\* and call onLocationSelect once, so that MapScreen holds the same values.
C2_MessageSelectsLocation ==
  [][\A raw \in C2_Messages :
       handleWebViewMessage(raw) =>
         LET coords == [latitude |-> raw.latitude[1], longitude |-> raw.longitude[1]] IN
           /\ selectedLocation' = coords
           /\ address' = (IF raw.address = None THEN "" ELSE raw.address[1])
           /\ locationSelectCalls' = 1
           /\ msSelectedLocation' = coords
           /\ msSelectedAddress' = raw.address]_vars

\* the MAP_LONG_PRESS messages as the widget posts them, with two numbers
C3_Messages ==
  {m \in Messages : m.type = "MAP_LONG_PRESS" /\ m.latitude # None /\ m.longitude # None}

\* C3: the add modal is shown only to a business owner, and a MAP_LONG_PRESS
\* received under any other role (the empty one included) shows the error
\* alert and leaves showAddModal and newPlaceCoords as they were.
C3_OnlyBusinessOwners ==
  [][/\ showAddModal' => userRole' = "businessOwner"
     /\ \A raw \in C3_Messages :
          (userRole # "businessOwner" /\ handleWebViewMessage(raw)) =>
            /\ mapAlert' = Some("only a business user can add markers")
            /\ UNCHANGED <<showAddModal, newPlaceCoords>>]_vars

\* every step that is the answer "ok" to a request in flight
C4_AnsweredOk ==
  \E req \in authRequests, mounts \in BOOLEAN :
    RegisterAnswered(req, "ok", mounts) \/ LoginAnswered(req, "ok", mounts)

\* every step that is another answer to a request in flight
C4_AnsweredNotOk ==
  \E req \in authRequests, outcome \in {"not ok", "throws"}, mounts \in BOOLEAN :
    RegisterAnswered(req, outcome, mounts) \/ LoginAnswered(req, outcome, mounts)

\* C4: handleSubmit writes the token, sets the session and navigates to the
\* profile only on an answer with res.ok; an answer that is not ok, or a
\* request that throws, shows an alert and leaves the stored token, the
\* session and the route unchanged.
C4_OnlyAfterOk ==
  [][/\ C4_AnsweredNotOk =>
          /\ authAlert' # None
          /\ UNCHANGED <<localStorageToken, userSession, route>>
     /\ (\/ localStorageToken' # localStorageToken
         \/ (userSession' # userSession /\ userSession' # None)
         \/ (focusCause' = "login" /\ focusPending' /\ ~focusPending))
          => C4_AnsweredOk]_vars

\* a login failed after an earlier success had stored the token
C4_Witness ==
  /\ authAlert = Some("login failed")
  /\ localStorageToken = Some("token")
  /\ userSession = None
  /\ route = "/login"

\* the form is incomplete, in the words of C5
C5_Incomplete ==
  \/ Blank(email)
  \/ Blank(password)
  \/ (isRegister /\ ~isCompany /\ Blank(name))
  \/ (isRegister /\ isCompany /\ Blank(companyName))

\* C5: with an incomplete form handleSubmit (of either variant of the screen)
\* shows the "fill in all fields" alert and sends no request, stores no token,
\* sets no session and does not navigate.
C5_IncompleteFormOnlyAlerts ==
  [][(C5_Incomplete /\ (handleSubmit \/ \E mounts \in BOOLEAN : handleSubmitLocal(mounts)))
       => /\ authAlert' = Some("fill in all fields")
          /\ UNCHANGED <<authRequests, localStorageToken, userSession, route,
                         profileSession, focusPending>>]_vars

\* the alert was shown for a registration whose email is only a blank
C5_Witness ==
  /\ authAlert = Some("fill in all fields")
  /\ isRegister
  /\ email = <<" ">>
  /\ ~Blank(password) /\ ~Blank(name)
  /\ authRequests = {} /\ userSession = None /\ route = "/login"

\* C6: whenever every field the screen displays for the mode and account type
\* holds a non-blank value, canSubmit is true.
C6_DisplayedFieldsSuffice ==
  (\A field \in DisplayedFields : ~Blank(FieldValue(field))) => canSubmit

\* C7: the profile screen has a local session only while a session is stored;
\* its focus effect redirects to /login when none is stored; handleLogout
\* clears the stored session and the local one and redirects to /login.
C7_ProfileNeedsSession ==
  [][/\ profileSession' # None => userSession' # None
     /\ (ProfileFocus /\ userSession = None) => route' = "/login"
     /\ handleLogout =>
          (userSession' = None /\ profileSession' = None /\ route' = "/login")]_vars

\* after a login and a logout: nothing stored, nothing rendered, login screen
C7_Witness ==
  /\ localStorageToken # None
  /\ userSession = None
  /\ profileSession = None
  /\ route = "/login"
  /\ ~focusPending

C9_AccountTypeRoundTrip ==
  /\ \A req \in authRequests :
       req.kind = "register" =>
         req.role = (IF req.isCompany THEN "businessOwner" ELSE "user")
  /\ userSession # None =>
       (userSession[1].accountType = "company"
          <=> users[userSession[1].name] = "businessOwner")
  /\ userSession # None => userSession[1].accountType \in {"user", "company"}

\* an admin logged in with the company chip selected and got a user session
C9_Witness ==
  /\ users[<<"a">>] = "admin"
  /\ userSession # None
  /\ userSession[1].accountType = "user"
  /\ accountType = "company"

\* C10: handleAddMarker sends nothing without coordinates; on an ok answer the
\* created place is appended to markers, the modal is closed and the form is
\* reset; on any other answer an alert is shown and markers, the modal and
\* the form are unchanged.
C10_AddMarker ==
  [][/\ (newPlaceCoords = None /\ handleAddMarker) => UNCHANGED addRequests
     /\ \A req \in addRequests :
          handleAddMarkerOk(req) =>
            /\ markers' = Append(markers, Created(req))
            /\ ~showAddModal'
            /\ newPlaceCoords' = None /\ newPlaceName' = "" /\ newPlaceDesc' = ""
     /\ \A req \in addRequests, threw \in BOOLEAN :
          handleAddMarkerFailed(req, threw) =>
            /\ mapAlert' # None
            /\ UNCHANGED <<markers, showAddModal, newPlaceCoords, newPlaceName,
                           newPlaceDesc>>]_vars

\* C11: no window.addMarker command is injected before MAP_LOADED has been
\* received, and once MAP_LOADED has been received and GET /places has answered
\* ok, every place of markers has been injected into the widget, in whichever
\* order the two events came.
C11_MarkersInjected ==
  /\ ~isMapLoaded => injectedMarkers = {}
  /\ (isMapLoaded /\ placesPc = "done") =>
       \A i \in 1..Len(markers) : markers[i] \in injectedMarkers

\* C12: the schema keeps referential integrity after any sequence of inserts
\* and deletes: every review references an existing place and an existing
\* user, every place has owner_id NULL or the id of an existing user; deleting
\* a user sets owner_id to NULL on that user's places, which remain, and
\* deletes that user's reviews; deleting a place deletes its reviews.
C12_Integrity ==
  /\ \A r \in dbReviews : r.place_id \in DOMAIN dbPlaces /\ r.user_id \in dbUsers
  /\ \A p \in DOMAIN dbPlaces : dbPlaces[p] = None \/ dbPlaces[p][1] \in dbUsers

C12_UserDeleted(u) ==
  /\ u \notin dbUsers'
  /\ DOMAIN dbPlaces' = DOMAIN dbPlaces
  /\ \A p \in DOMAIN dbPlaces :
       dbPlaces'[p] = IF dbPlaces[p] = Some(u) THEN None ELSE dbPlaces[p]
  /\ dbReviews' = {r \in dbReviews : r.user_id # u}

C12_PlaceDeleted(p) ==
  /\ p \notin DOMAIN dbPlaces'
  /\ dbReviews' = {r \in dbReviews : r.place_id # p}
  /\ dbUsers' = dbUsers

C12_ReferentialIntegrity ==
  /\ []C12_Integrity
  /\ [][/\ \A u \in RowIds : DeleteUser(u) => C12_UserDeleted(u)
        /\ \A p \in RowIds : DeletePlace(p) => C12_PlaceDeleted(p)]_vars

\* a user has been deleted: the places that user owned remain, without owner,
\* and the reviews that user wrote are gone
C12_Witness ==
  /\ Cardinality(dbUsers) < nextUserId
  /\ \E p \in DOMAIN dbPlaces : dbPlaces[p] = None
  /\ Cardinality(DOMAIN dbPlaces) = nextPlaceId
  /\ nextReviewId > 0
  /\ dbReviews = {}

\* C13: normalizePost(post, index) returns a post whose likes, totalLikes and
\* followers are parseNumericValue of the input's fields, whose uid is the post
\* id, a hyphen and the index, and whose every other field equals the input's;
\* normalizePosts(list) applies this with each post's position as index and
\* keeps the length and the order of the list.
C13_Parsed == {"likes", "totalLikes", "followers"}

C13_Normalized(post, index, result) ==
  /\ DOMAIN result = DOMAIN post \cup {"uid"}
  /\ \A field \in C13_Parsed : result[field] = parseNumericValue(post[field])
  /\ result.uid = <<post.id, "-", index>>
  /\ \A field \in DOMAIN post \ (C13_Parsed \cup {"uid"}) : result[field] = post[field]

C13_NormalizePost ==
  /\ normalizedPost # None =>
       C13_Normalized(normalizedPost[1].post, normalizedPost[1].index,
                      normalizedPost[1].result)
  /\ normalizedList # None =>
       /\ Len(normalizedList[1]) = Len(listInput)
       /\ \A i \in 1..Len(listInput) :
            C13_Normalized(listInput[i], i - 1, normalizedList[1][i])

\* both functions have been called on a list of two posts that has a text as
\* likes, the single post with an index other than 0
C13_Witness ==
  /\ normalizedPost # None
  /\ normalizedList # None
  /\ Len(listInput) = 2
  /\ \E i \in 1..Len(listInput) : "string" \in DOMAIN listInput[i].likes
  /\ normalizedPost[1].index > 0

\* C14: parseNumericValue returns a number input unchanged; for a string it
\* removes whitespace, lower-cases, turns the first comma into a dot and
\* multiplies the parsed number by 1,000,000 when the string contains the
\* suffix for millions, otherwise by 1,000 when it contains the suffix for
\* thousands or ends with 'k', otherwise by 1; it returns 0 whenever the
\* remaining text does not parse to a finite number, so for string input the
\* result is never NaN or infinite.
C14_Text(value) ==
  replaceFirst(toLowerCase(removeWhitespace(value.string)), <<",">>, <<".">>)

C14_Multiplier(text) ==
  IF includes(text, MLN) THEN FromInt(1000000)
  ELSE IF includes(text, TYS) \/ endsWith(text, <<"k">>) THEN FromInt(1000)
  ELSE FromInt(1)

C14_Remaining(text) ==
  IF includes(text, MLN) THEN replaceFirst(text, MLN, <<>>)
  ELSE IF includes(text, TYS) THEN replaceFirst(text, TYS, <<>>)
  ELSE IF endsWith(text, <<"k">>) THEN SubSeq(text, 1, Len(text) - 1)
  ELSE text

C14_Described(value) ==
  IF "number" \in DOMAIN value THEN value.number
  ELSE LET text == C14_Text(value)
           parsed == parseFloat(C14_Remaining(text))
       IN IF isFinite(parsed) THEN Times(parsed, C14_Multiplier(text)) ELSE FromInt(0)

C14_ParseNumericValue ==
  parsedValue # None =>
    /\ parsedValue[1] = C14_Described(numericInput)
    /\ "string" \in DOMAIN numericInput => isFinite(parsedValue[1])

\* C15: on the search screen, after the effects have run following any
\* sequence of query edits, clearSearch, category selections and likes,
\* searchResults equals filterPosts(postsData, selectedCategory, searchQuery)
\* and isSearching is true exactly when the trimmed query is non-empty;
\* searchResults is always a sub-list of postsData in the same order.
RECURSIVE C15_IsSubList(_, _)
C15_IsSubList(sub, full) ==
  IF sub = <<>> THEN TRUE
  ELSE IF full = <<>> THEN FALSE
  ELSE IF Head(sub) = Head(full) THEN C15_IsSubList(Tail(sub), Tail(full))
  ELSE C15_IsSubList(sub, Tail(full))

UidsOf(list) == [i \in 1..Len(list) |-> list[i].uid]

C15_EffectsRan ==
  ~effectsPending =>
    /\ searchResults = filterPosts(postsData, selectedCategory, searchQuery)
    /\ isSearching = (Len(trim(searchQuery)) > 0)

\* C15 as the specification has it: the posts of searchResults are
\* posts of postsData at every moment
C15_SearchResults ==
  /\ C15_EffectsRan
  /\ C15_IsSubList(searchResults, postsData)

\* C15, amended: after the effects have run searchResults equals
\* filterPosts(postsData, selectedCategory, searchQuery), isSearching is true
\* exactly when the trimmed query is non-empty and searchResults is a sub-list
\* of postsData in the same order; at every moment the uids of searchResults
\* are a sub-list of the uids of postsData in the same order (between a like
\* and the effects the liked post of searchResults still has the old likes).
C15_SearchResultsByUid ==
  /\ C15_EffectsRan
  /\ ~effectsPending => C15_IsSubList(searchResults, postsData)
  /\ C15_IsSubList(UidsOf(searchResults), UidsOf(postsData))

\* the effects have run after a like, with a query and a category that keep
\* some posts and drop others
C15_Witness ==
  /\ ~effectsPending
  /\ postsData # allPostsNormalized
  /\ Len(trim(searchQuery)) > 0
  /\ selectedCategory # ALL
  /\ isSearching
  /\ searchResults # <<>>
  /\ Len(searchResults) < Len(postsData)

\* C18: handleLike(uid) increases by exactly 1 the likes of the post with that
\* uid and changes nothing else: every other post and every other field is
\* unchanged, the length and order of postsData are unchanged, and the uids of
\* searchResults after the effects have run are the same, in the same order,
\* as before the like.
C18_Liked(uid) ==
  /\ Len(postsData') = Len(postsData)
  /\ \A i \in 1..Len(postsData) :
       IF postsData[i].uid = uid
         THEN /\ postsData'[i].likes = Plus(postsData[i].likes, FromInt(1))
              /\ Less(postsData[i].likes, postsData'[i].likes)
              /\ DOMAIN postsData'[i] = DOMAIN postsData[i]
              /\ \A field \in DOMAIN postsData[i] \ {"likes"} :
                   postsData'[i][field] = postsData[i][field]
         ELSE postsData'[i] = postsData[i]
  /\ UNCHANGED <<searchResults, selectedCategory, searchQuery, isSearching>>
  /\ UidsOf(filterPosts(postsData', selectedCategory', searchQuery'))
       = UidsOf(searchResults)

C18_LikeChangesOneCounter ==
  [][/\ \A i \in 1..Len(postsData) :
          handleLike(postsData[i].uid) => C18_Liked(postsData[i].uid)
     /\ RunSearchEffects =>
          searchResults' = filterPosts(postsData, selectedCategory, searchQuery)]_vars

\* a post of a list of two has been liked and the effects have run, the other
\* post has the likes it was loaded with
C18_Witness ==
  /\ ~effectsPending
  /\ Len(postsData) = 2
  /\ \E i, j \in 1..Len(postsData) :
       /\ i # j
       /\ postsData[i].likes = Plus(allPostsNormalized[i].likes, FromInt(1))
       /\ postsData[j] = allPostsNormalized[j]
  /\ searchResults # <<>>

\* C16: no searchAddress or buildRoute command whose text argument is empty
\* after trimming is ever injected into the map widget, whichever entry point
\* is used: the submitted search field, an external search action, an external
\* route action, or a direct call on the YandexMap handle.
C16_NoBlankCommand ==
  \A command \in injectedCommands :
    /\ trim(command.source) # <<>>
    /\ command.argument # None => trim(command.argument[1]) # <<>>

\* C17: handleWebViewMessage never throws and, for a message that is not valid
\* JSON, has an unknown type, has type ERROR, or is a MAP_CLICK, SEARCH_RESULT,
\* ROUTE_BUILT or MAP_LONG_PRESS message without latitude or longitude, leaves
\* selectedLocation, address, showAddModal and newPlaceCoords unchanged and does
\* not call onLocationSelect; an ERROR message only shows an alert.
C17_Messages ==
  {raw \in Messages :
     \/ raw = NotJson
     \/ raw.type \in {"UNKNOWN", "ERROR"}
     \/ raw.type \in CoordinateTypes /\ (raw.latitude = None \/ raw.longitude = None)}

C17_Handled(raw) ==
  /\ UNCHANGED <<selectedLocation, address, showAddModal, newPlaceCoords>>
  /\ locationSelectCalls' = 0
  /\ UNCHANGED <<msSelectedLocation, msSelectedAddress>>
  /\ ~mapCrashed'
  /\ IF raw.type = "ERROR"
       THEN /\ mapAlert' # None
            /\ UNCHANGED <<isLoading, isMapLoaded, markers, newPlaceName, newPlaceDesc,
                           userRole, mapToken, asyncStorageToken, rolePc, placesPc,
                           addRequests, injectedMarkers, userLocation, hasCenteredInitial,
                           msSearchQuery, searchActive, frameCallbacks>>
            /\ injectedCommands' = {}
       ELSE mapAlert' = None

C17_MessageWithoutEffect ==
  [][\A raw \in C17_Messages : handleWebViewMessage(raw) => C17_Handled(raw)]_vars

\* an alert is shown for an ERROR message that came after a position had been
\* selected and the modal had been opened: both are as they were
C17_Witness ==
  /\ mapAlert = Some("geocoder failed")
  /\ selectedLocation # INITIAL_LOCATION
  /\ showAddModal
  /\ newPlaceCoords # None

\* C19: after handleLogout the bearer token that a successful login or
\* registration stored under the key 'token' is no longer stored, so that no
\* credential of the logged-out user remains available to the app.
C19_LogoutRemovesToken ==
  [][handleLogout => localStorageToken' = None]_vars

====
